---- MODULE Spec2Model ----
(***************************************************************************)
(* The API gateway of social-media-microservices as a state machine: the   *)
(* express middleware chain of api-gateway/src/server.js (cors, json body  *)
(* parser, redis-backed rate limiter, route mounts, validateToken, proxy,  *)
(* error handler) run by concurrent requests that share one rate-limit     *)
(* counter in the store.  Two services behind it are modelled on their     *)
(* own: the identity service's refreshToken and the limiters in front of   *)
(* /api/auth/register (IdentitySpec), and the post service's controller    *)
(* with its redis cache (PostSpec).                                        *)
(*                                                                         *)
(* Strings are sequences of tokens: "/v1/posts/42?x=1" is                  *)
(* <<"/","v1","/","posts","/","42","?","x=1">> and "Bearer abc" is         *)
(* <<"Bearer"," ","abc">>, so that slicing, prefix tests, splitting and    *)
(* concatenation are computed as the code computes them.                   *)
(***************************************************************************)
EXTENDS Integers, Sequences, FiniteSets, TLC

VARIABLES build, secretSet, hits, epoch, prior, req

\* the identity service: the RefreshToken collection, the refreshToken calls,
\* the two rate limiters' counters and the requests to /api/auth/register
VARIABLES stored, issued, calls, consumed, regHits, regs

\* the post service: the Post collection, the redis cache of single posts and
\* of the list, the controller calls; dbVersion counts the writes to the
\* collection and settled[k] is the last write touching key k (a post id, or
\* ListKey for the list) whose call, invalidation included, has completed
VARIABLES db, nextId, dbVersion, settled, cacheItem, cacheList, ops

identityVars == <<stored, issued, calls, consumed, regHits, regs>>

postVars == <<db, nextId, dbVersion, settled, cacheItem, cacheList, ops>>

gatewayVars == <<build, secretSet, hits, epoch, prior, req>>

vars == <<gatewayVars, identityVars, postVars>>

(***************************************************************************)
(* Bounds of the model                                                     *)
(***************************************************************************)
\* concurrent request tasks of the concurrent specification
MaxReqs == 2
\* the store's counter starts a run at 0 or within Slack of the budget
Slack == 2
\* rate-limit windows that may expire during a run
MaxEpoch == 1
\* concurrent refreshToken calls of the identity service
MaxCalls == 2
\* concurrent requests to /api/auth/register
MaxRegs == 2
\* concurrent controller calls of the post service
MaxOps == 2
\* post ids that createPost may hand out
MaxPosts == 2

(***************************************************************************)
(* Program constants                                                       *)
(***************************************************************************)
\* rateLimit({ max: 100 })
max == 100
\* new RateLimiterRedis({ points: 10 }), per second
points == 10
\* sensitiveEndpointsLimiter: rateLimit({ max: 50 }), per 15 minutes
sensitiveMax == 50

Reqs == 1 .. MaxReqs

Builds == {"legacy", "current"}

(***************************************************************************)
(* Strings as token sequences                                              *)
(***************************************************************************)
Lower(tok) ==
  CASE tok = "V1" -> "v1"
    [] tok = "POSTS" -> "posts"
    [] OTHER -> tok

LowerAll(s) == [i \in 1 .. Len(s) |-> Lower(s[i])]

Drop(s, n) == SubSeq(s, n + 1, Len(s))

Take(s, n) == SubSeq(s, 1, n)

StartsWith(s, p) == Len(s) >= Len(p) /\ Take(s, Len(p)) = p

\* index of the first token of s that is in set stop, Len(s) + 1 when none is
FirstIn(s, stop) ==
  IF \E i \in 1 .. Len(s) : s[i] \in stop
  THEN CHOOSE i \in 1 .. Len(s) :
         s[i] \in stop /\ \A j \in 1 .. (i - 1) : s[j] \notin stop
  ELSE Len(s) + 1

\* parseurl(req).pathname: the url up to its query string or fragment
Pathname(u) == Take(u, FirstIn(u, {"?", "#"}) - 1)

\* require("url").parse(u).path: pathname and query string, without the fragment
UrlParsePath(u) == Take(u, FirstIn(u, {"#"}) - 1)

(***************************************************************************)
(* Route table: app.use(prefix, [validateToken,] proxy(target, ...))       *)
(***************************************************************************)
MountAuth == <<"/", "v1", "/", "auth">>

MountPosts == <<"/", "v1", "/", "posts">>

MountMedia == <<"/", "v1", "/", "media">>

\* the mounts in the order server.js registers them; auth: validateToken is mounted
Routes(b) ==
  IF b = "legacy"
  THEN << [mount |-> MountAuth, target |-> "identity", auth |-> FALSE,
           internal |-> <<"/", "api", "/", "auth">>] >>
  ELSE << [mount |-> MountAuth, target |-> "identity", auth |-> FALSE,
           internal |-> <<"/", "api", "/", "auth">>],
          [mount |-> MountPosts, target |-> "post", auth |-> TRUE,
           internal |-> <<"/", "api", "/", "posts">>],
          [mount |-> MountMedia, target |-> "media", auth |-> TRUE,
           internal |-> <<"/", "api", "/", "media">>] >>

\* express Layer.match for a mount path (path-to-regexp, end: false, not case
\* sensitive): ^<mount>\/?(?=\/|$) on the pathname; the matched text, or <<>>
LayerMatch(mount, pathname) ==
  LET n == Len(mount)
      rest == Drop(pathname, n)
  IN  IF Len(pathname) < n \/ LowerAll(Take(pathname, n)) # mount THEN <<>>
      ELSE IF rest = <<>> THEN Take(pathname, n)
      ELSE IF rest[1] # "/" THEN <<>>
      ELSE IF Len(rest) = 1 \/ rest[2] = "/" THEN Take(pathname, n + 1)
      ELSE Take(pathname, n)

\* index in Routes(b) of the first mount matching originalUrl, 0 when none does
RouteIndex(b, originalUrl) ==
  LET hit == {i \in 1 .. Len(Routes(b)) :
                LayerMatch(Routes(b)[i].mount, Pathname(originalUrl)) # <<>>}
  IN  IF hit = {} THEN 0 ELSE CHOOSE i \in hit : \A j \in hit : i <= j

\* express router trim_prefix: req.url is the original url without the matched
\* layer path, with a leading slash ensured
TrimPrefix(originalUrl, layerPath) ==
  LET rest == Drop(originalUrl, Len(layerPath))
  IN  IF rest = <<>> \/ rest[1] # "/" THEN <<"/">> \o rest ELSE rest

\* proxyReqPathResolver of the current mounts: `/api/<svc>${url.parse(req.url).path}`
ProxyReqPathResolver(internal, reqUrl) == internal \o UrlParsePath(reqUrl)

\* proxyOptions.proxyReqPathResolver: req.originalUrl.replace(/^\/v1/, "/api")
LegacyPathResolver(originalUrl) ==
  IF StartsWith(originalUrl, <<"/", "v1">>)
  THEN <<"/", "api">> \o Drop(originalUrl, 2)
  ELSE originalUrl

\* the path the proxy of route rt sends downstream for a request
ForwardPath(b, rt, originalUrl) ==
  IF b = "legacy"
  THEN LegacyPathResolver(originalUrl)
  ELSE ProxyReqPathResolver(rt.internal,
         TrimPrefix(originalUrl, LayerMatch(rt.mount, Pathname(originalUrl))))

(***************************************************************************)
(* Tokens and jwt.verify                                                   *)
(***************************************************************************)
Tokens ==
  {"jwt_ok", "jwt_ok_id", "jwt_expired", "jwt_badsig", "jwt_badsig_expired",
   "jwt_badalg", "jwt_badalg_expired", "jwt_notyet", "jwt_malformed"}

\* what a token is, relative to JWT_SECRET and the current time; userId is
\* payload.userId, subject the user the token was issued to (payload.userId,
\* or payload.id in a token that names it so)
Jwt(t) ==
  [ wellFormed |-> t # "jwt_malformed",
    algOk      |-> t \notin {"jwt_badalg", "jwt_badalg_expired"},
    sigOk      |-> t \in {"jwt_ok", "jwt_ok_id", "jwt_expired", "jwt_notyet"},
    active     |-> t # "jwt_notyet",
    expired    |-> t \in {"jwt_expired", "jwt_badsig_expired", "jwt_badalg_expired"},
    userId     |-> IF t = "jwt_ok_id" THEN "undefined" ELSE "u1",
    subject    |-> "u1" ]

\* a verify that tests the expiry before the signature
JwtVerifyExpiryFirst(tok) ==
  LET j == Jwt(tok[1])
  IN  IF Len(tok) # 1 \/ tok[1] \notin Tokens \/ ~j.wellFormed
        THEN [err |-> "JsonWebTokenError", userId |-> "undefined"]
      ELSE IF j.expired
        THEN [err |-> "TokenExpiredError", userId |-> "undefined"]
      ELSE IF ~j.algOk \/ ~j.sigOk
        THEN [err |-> "JsonWebTokenError", userId |-> "undefined"]
      ELSE IF ~j.active
        THEN [err |-> "NotBeforeError", userId |-> "undefined"]
      ELSE [err |-> "", userId |-> j.userId]

\* jsonwebtoken's verify: structure, algorithm, signature, nbf, exp, in this
\* order; err.name ("" on success) and decoded.userId
JwtVerify(tok) ==
  LET j == Jwt(tok[1])
  IN  IF Len(tok) # 1 \/ tok[1] \notin Tokens \/ ~j.wellFormed
        THEN [err |-> "JsonWebTokenError", userId |-> "undefined"]
      ELSE IF ~j.algOk \/ ~j.sigOk
        THEN [err |-> "JsonWebTokenError", userId |-> "undefined"]
      ELSE IF ~j.active
        THEN [err |-> "NotBeforeError", userId |-> "undefined"]
      ELSE IF j.expired
        THEN [err |-> "TokenExpiredError", userId |-> "undefined"]
      ELSE [err |-> "", userId |-> j.userId]

(***************************************************************************)
(* validateToken (authMiddleware.js)                                       *)
(***************************************************************************)
\* authHeader.split(" ")[1]: the tokens between the first and the second space
SplitSecond(h) ==
  LET i == FirstIn(h, {" "})
      after == Drop(h, i)
  IN  IF i > Len(h) THEN <<>> ELSE Take(after, FirstIn(after, {" "}) - 1)

\* !token || token.trim() === ""
IsBlank(tok) == \A i \in 1 .. Len(tok) : tok[i] = "\t"

BearerScheme(h) ==
  StartsWith(h, <<"Bearer", " ">>) \/ StartsWith(h, <<"bearer", " ">>)

Verdict(st, m, v, u) ==
  [status |-> st, message |-> m, verified |-> v, userId |-> u]

\* the test of the jwt.verify error names, as ValidateToken makes it
VerifyVerdict(v) ==
  IF v.err = "TokenExpiredError"
    THEN Verdict(401, "Token expired - Please login again", TRUE, "none")
  ELSE IF v.err = "JsonWebTokenError"
    THEN Verdict(403, "Invalid token - Authentication failed", TRUE, "none")
  ELSE IF v.err # ""
    THEN Verdict(403, "Token verification failed", TRUE, "none")
  ELSE Verdict(0, "", TRUE, v.userId)

\* a validateToken that lets a request without the header through
ValidateTokenHeaderOptional(authHeader, secret) ==
  IF authHeader = <<>> THEN Verdict(0, "", FALSE, "none")
  ELSE IF ~BearerScheme(authHeader) \/ IsBlank(SplitSecond(authHeader))
    THEN Verdict(401, "Authentication required", FALSE, "none")
  ELSE IF ~secret THEN Verdict(500, "Server configuration error", FALSE, "none")
  ELSE VerifyVerdict(JwtVerify(SplitSecond(authHeader)))

\* a validateToken that answers every verification failure alike
ValidateTokenOneFailure(authHeader, secret) ==
  IF authHeader = <<>> \/ ~BearerScheme(authHeader)
       \/ IsBlank(SplitSecond(authHeader))
    THEN Verdict(401, "Authentication required", FALSE, "none")
  ELSE IF ~secret THEN Verdict(500, "Server configuration error", FALSE, "none")
  ELSE LET v == JwtVerify(SplitSecond(authHeader))
       IN  IF v.err # ""
             THEN Verdict(401, "Token expired - Please login again", TRUE, "none")
           ELSE Verdict(0, "", TRUE, v.userId)

\* the response validateToken writes (status 0: none, next() is called),
\* whether jwt.verify was invoked, and req.user.userId
ValidateToken(authHeader, secret) ==
  IF authHeader = <<>>
    THEN Verdict(401, "Authentication required - No token provided", FALSE, "none")
  ELSE IF ~BearerScheme(authHeader)
    THEN Verdict(401, "Authentication required - Invalid format. Use: Bearer <token>",
                 FALSE, "none")
  ELSE IF IsBlank(SplitSecond(authHeader))
    THEN Verdict(401, "Authentication required - Empty token", FALSE, "none")
  ELSE IF ~secret
    THEN Verdict(500, "Server configuration error", FALSE, "none")
  ELSE VerifyVerdict(JwtVerify(SplitSecond(authHeader)))

(***************************************************************************)
(* Requests                                                                *)
(***************************************************************************)
Methods == {"GET", "POST", "OPTIONS"}

\* the request body: well-formed json, malformed json, or a multipart upload
Bodies == {"json", "malformed", "multipart"}

Multipart == "multipart/form-data; boundary=x"

\* the content-type header the client sends with the body
ContentTypeOf(body) == IF body = "multipart" THEN Multipart ELSE "application/json"

\* srcReq.headers[name]: node stores the header names in lower case
ReqHeader(q, name) ==
  CASE name = "content-type" -> ContentTypeOf(q.body)
    [] OTHER -> "undefined"

\* value?.startsWith("multipart/form-data")
StartsWithMultipart(value) == value = Multipart

Rests ==
  { <<>>, <<"/">>, <<"/", "42">>, <<"?", "x=1">>, <<"/", "?", "x=1">>,
    <<"/", "42", "?", "x=1">>, <<".json">> }

Urls ==
  { pre \o rest :
      pre \in {MountAuth, MountPosts, MountMedia, <<"/", "V1", "/", "POSTS">>,
               <<"/", "V1", "/", "auth">>, <<"/", "v1", "/", "users">>,
               <<"/", "health">>},
      rest \in Rests }

AuthHeaders ==
  {<<>>}
    \cup { <<s, " ", t>> : s \in {"Bearer", "bearer"}, t \in Tokens }
    \cup { <<"BEARER", " ", "jwt_ok">>, <<"Basic", " ", "jwt_ok">>,
           <<"Bearer">>, <<"Bearer", " ", " ", "jwt_ok">>,
           <<"Bearer", " ", "\t", " ", "jwt_ok">>,
           <<"Bearer", " ", "jwt_ok", " ", "jwt_ok">> }

\* the inputs of the concurrent specification
CoreUrls == { MountAuth \o <<"/", "42">>, MountPosts \o <<"/", "42">> }

CoreAuthHeaders == { <<>> }

\* how the downstream service behaves for one forwarded request
Nets == {"answers", "refused", "reset", "hangs"}

DownStatuses == {200, 404}

IdleReq ==
  [ pc |-> "idle", method |-> "", url |-> <<>>, auth |-> <<>>, body |-> "",
    totalHits |-> 0, win |-> 0, trace |-> <<>>, status |-> 0, success |-> "",
    message |-> "", error |-> "", writes |-> 0, target |-> "", path |-> <<>>,
    xUserId |-> "", outType |-> "", net |-> "" ]

\* res.status(st).json({ success: false, message: m, [error: e] })
Envelope(q, st, m, e) ==
  [q EXCEPT !.pc = "done", !.status = st, !.success = "false", !.message = m,
            !.error = e, !.writes = q.writes + 1]

\* errHandler, the error-handling middleware mounted last
ErrHandler(q) == Envelope(q, 500, "Internal Server Error", "")

\* express's final handler when no middleware answered: 404, an html page
FinalHandler(q) ==
  [q EXCEPT !.pc = "done", !.status = 404, !.success = "", !.message = "Cannot",
            !.writes = q.writes + 1]

\* cors(): a preflight request is answered 204 with no body
CorsPreflight(q) ==
  [q EXCEPT !.pc = "done", !.status = 204, !.writes = q.writes + 1,
            !.trace = Append(q.trace, "cors")]

\* a limiter that rejects the request that uses up the budget
LimitExceededAtBudget(totalHits) == totalHits >= max

\* express-rate-limit: totalHits > max
LimitExceeded(totalHits) == totalHits > max

\* the rate limiter's handler option
LimitHandler(q) == Envelope(q, 429, "Too Many Requests", "")

\* proxyOptions.proxyErrorHandler of the legacy build
LegacyProxyErrorHandler(q) ==
  Envelope(q, 500, "Internal Server Error", "err.message")

\* express-http-proxy's handling of an error of the proxied request
ProxyError(b, q, code) ==
  IF b = "legacy" THEN LegacyProxyErrorHandler(q)
  ELSE IF code = "ECONNRESET"
    THEN [q EXCEPT !.pc = "done", !.status = 504, !.writes = q.writes + 1]
  ELSE ErrHandler(q)

\* proxyReqOptDecorator: the x-user-id header of the outbound request
XUserId(b, rt, userId) ==
  IF b = "current" /\ rt.auth THEN userId ELSE ""

\* proxyReqOptDecorator: the content-type header of the outbound request; the
\* media mount tests srcReq.headers["content-Type"], the others set json
OutContentType(b, rt, q) ==
  IF b = "current" /\ rt.target = "media"
       /\ StartsWithMultipart(ReqHeader(q, "content-Type"))
  THEN ReqHeader(q, "content-type")
  ELSE "application/json"

\* proxy(target, options) up to the dispatch of the outbound request
Proxy(b, rt, q, userId, net) ==
  LET out == [q EXCEPT !.trace = Append(q.trace, "proxy"), !.target = rt.target,
                       !.path = ForwardPath(b, rt, q.url),
                       !.xUserId = XUserId(b, rt, userId),
                       !.outType = OutContentType(b, rt, q)]
  IN  IF out.xUserId = "undefined"
      THEN ProxyError(b, out, "ERR_HTTP_INVALID_HEADER_VALUE")
      ELSE [out EXCEPT !.pc = "proxying", !.net = net]

\* a mounted route that goes to the proxy without validateToken
RunRouteUnchecked(b, secret, rt, q, net) == Proxy(b, rt, q, "u1", net)

\* a mounted route: validateToken when the route has it, then the proxy
RunRoute(b, secret, rt, q, net) ==
  IF rt.auth
  THEN LET v == ValidateToken(q.auth, secret)
           seen == [q EXCEPT !.trace =
                      q.trace \o (IF v.verified THEN <<"validateToken", "jwt.verify">>
                                  ELSE <<"validateToken">>)]
       IN  IF v.status # 0 THEN Envelope(seen, v.status, v.message, "")
           ELSE Proxy(b, rt, seen, v.userId, net)
  ELSE Proxy(b, rt, q, "none", net)

\* the chain after the rate limiter called next(): logging, routes, final handler
AfterLimiter(b, secret, q, net) ==
  LET i == RouteIndex(b, q.url)
      logged == [q EXCEPT !.trace = Append(q.trace, "log")]
  IN  IF i = 0 THEN FinalHandler(logged)
      ELSE RunRoute(b, secret, Routes(b)[i], logged, net)

\* a chain in which the routes are mounted before the rate limiter
LimiterAfterRoutes(b, secret, q, net) ==
  IF RouteIndex(b, q.url) # 0 THEN AfterLimiter(b, secret, q, net)
  ELSE IF LimitExceeded(q.totalHits) THEN LimitHandler(q)
  ELSE AfterLimiter(b, secret, q, net)

\* the rate limiter once the store has answered totalHits
LimiterDecide(b, secret, q, net) ==
  IF LimitExceeded(q.totalHits) THEN LimitHandler(q)
  ELSE AfterLimiter(b, secret, q, net)

(***************************************************************************)
(* Identity service and post service: the state before any call            *)
(***************************************************************************)
Calls == 1 .. MaxCalls

Regs == 1 .. MaxRegs

Ops == 1 .. MaxOps

PostIds == 1 .. MaxPosts

\* a refreshToken call that has not arrived; found is the stored token read by
\* findOne and fresh the refresh token made by generateToken
IdleCall ==
  [pc |-> "idle", token |-> <<>>, found |-> <<>>, fresh |-> <<>>, status |-> 0]

\* a request to /api/auth/register that has not arrived
IdleReg ==
  [pc |-> "idle", totalHits |-> 0, handled |-> FALSE, status |-> 0, writes |-> 0]

\* a controller call of the post service that has not arrived; seen and
\* seenVersion are what the call read from the collection, floor is the last
\* settled write when the call arrived
IdleOp ==
  [pc |-> "idle", kind |-> "", id |-> 0, seen |-> {}, total |-> 0,
   seenVersion |-> 0, floor |-> 0, hit |-> FALSE, status |-> 0, body |-> <<>>]

\* redis holds nothing under the key; an entry holds the json text and, for
\* the properties, the version of the collection it was computed from
NoEntry == [present |-> FALSE, json |-> <<>>, version |-> 0]

\* the key of the list in settled: "posts:1:10"
ListKey == 0

\* the refresh tokens in the collection at the start: rtLive is valid, rtOld
\* has passed its expiresAt, rtOrphan belongs to a user that no longer exists
StoredAtStart == {<<"rtLive">>, <<"rtOld">>, <<"rtOrphan">>}

IdentityIdle ==
  /\ stored = StoredAtStart
  /\ issued = 0
  /\ calls = [c \in Calls |-> IdleCall]
  /\ consumed = 0
  /\ regHits = 0
  /\ regs = [g \in Regs |-> IdleReg]

PostIdle ==
  /\ db = {1}
  /\ nextId = 2
  /\ dbVersion = 0
  /\ settled = [k \in PostIds \cup {ListKey} |-> 0]
  /\ cacheItem = [i \in PostIds |-> NoEntry]
  /\ cacheList = NoEntry
  /\ ops = [o \in Ops |-> IdleOp]

GatewayIdle ==
  /\ build = "current"
  /\ secretSet = TRUE
  /\ prior = 0
  /\ hits = 0
  /\ epoch = 0
  /\ req = [r \in Reqs |-> IdleReq]

(***************************************************************************)
(* State                                                                   *)
(***************************************************************************)
Init ==
  /\ IdentityIdle
  /\ PostIdle
  /\ build \in Builds
  /\ secretSet \in BOOLEAN
  /\ prior \in {0} \cup ((max - Slack) .. max)
  /\ hits = prior
  /\ epoch = 0
  /\ req = [r \in Reqs |-> IdleReq]

\* a request arrives: helmet, cors, express.json, then the rate limiter sends
\* its increment to the store
Accept(r, m, u, a, b) ==
  /\ req[r].pc = "idle"
  /\ LET q == [req[r] EXCEPT !.method = m, !.url = u, !.auth = a, !.body = b]
     IN  req' = [req EXCEPT ![r] =
           IF m = "OPTIONS" THEN CorsPreflight(q)
           ELSE IF b = "malformed"
             THEN ErrHandler([q EXCEPT !.trace = Append(q.trace, "json")])
           ELSE [q EXCEPT !.pc = "counting",
                          !.trace = Append(q.trace, "rateLimit")]]
  /\ UNCHANGED <<build, secretSet, hits, epoch, prior, identityVars, postVars>>

Receive(r) ==
  /\ req[r].pc = "idle"
  /\ \E m \in Methods, u \in Urls, a \in AuthHeaders, b \in Bodies :
       Accept(r, m, u, a, b)

ReceiveCore(r) ==
  /\ req[r].pc = "idle"
  /\ \E u \in CoreUrls, a \in CoreAuthHeaders : Accept(r, "POST", u, a, "json")

\* an increment made by the gateway in two steps: read the counter, write it back
StoreReadThenWrite(r) ==
  /\ req[r].pc = "counting"
  /\ \/ /\ req[r].totalHits = 0
        /\ req' = [req EXCEPT ![r].totalHits = hits + 1, ![r].win = epoch]
        /\ hits' = hits
     \/ /\ req[r].totalHits > 0
        /\ req' = [req EXCEPT ![r].pc = "counted"]
        /\ hits' = req[r].totalHits
  /\ UNCHANGED <<build, secretSet, epoch, prior, identityVars, postVars>>

\* RedisStore.increment: one script run by the store, INCR and the window's expiry
StoreIncrement(r) ==
  /\ req[r].pc = "counting"
  /\ hits' = hits + 1
  /\ req' = [req EXCEPT ![r].pc = "counted", ![r].totalHits = hits + 1,
                        ![r].win = epoch]
  /\ UNCHANGED <<build, secretSet, epoch, prior, identityVars, postVars>>

\* the store cannot be reached: increment rejects and the limiter calls next(err)
StoreError(r) ==
  /\ req[r].pc = "counting"
  /\ req' = [req EXCEPT ![r] = ErrHandler(req[r])]
  /\ UNCHANGED <<build, secretSet, hits, epoch, prior, identityVars, postVars>>

\* the key of the window expires in the store (windowMs after its first hit)
WindowExpire ==
  /\ hits > 0
  /\ epoch < MaxEpoch
  /\ hits' = 0
  /\ epoch' = epoch + 1
  /\ UNCHANGED <<build, secretSet, prior, req, identityVars, postVars>>

\* the store's answer reaches the gateway: limiter decision and, when admitted,
\* the rest of the chain up to the dispatch downstream
\* a gateway that waits for the downstream call in progress before it takes up
\* the next request
ContinueBlocking(r) ==
  /\ req[r].pc = "counted"
  /\ \A o \in Reqs : req[o].pc # "proxying"
  /\ \E net \in Nets :
       req' = [req EXCEPT ![r] = LimiterDecide(build, secretSet, req[r], net)]
  /\ UNCHANGED <<build, secretSet, hits, epoch, prior, identityVars, postVars>>

Continue(r) ==
  /\ req[r].pc = "counted"
  /\ \E net \in Nets :
       req' = [req EXCEPT ![r] = LimiterDecide(build, secretSet, req[r], net)]
  /\ UNCHANGED <<build, secretSet, hits, epoch, prior, identityVars, postVars>>

\* the downstream service answers: status and body are relayed
DownstreamResponse(r) ==
  /\ req[r].pc = "proxying"
  /\ req[r].net = "answers"
  /\ \E st \in DownStatuses :
       req' = [req EXCEPT ![r].pc = "done", ![r].status = st,
                          ![r].message = "relayed", ![r].writes = req[r].writes + 1]
  /\ UNCHANGED <<build, secretSet, hits, epoch, prior, identityVars, postVars>>

\* the connection to the downstream service fails
DownstreamError(r) ==
  /\ req[r].pc = "proxying"
  /\ req[r].net \in {"refused", "reset"}
  /\ req' = [req EXCEPT ![r] =
       ProxyError(build, req[r],
                  IF req[r].net = "reset" THEN "ECONNRESET" ELSE "ECONNREFUSED")]
  /\ UNCHANGED <<build, secretSet, hits, epoch, prior, identityVars, postVars>>

Step(r) ==
  \/ StoreIncrement(r)
  \/ StoreError(r)
  \/ Continue(r)
  \/ DownstreamResponse(r)
  \/ DownstreamError(r)

\* one request at a time, every input
Next ==
  \/ Receive(1)
  \/ Step(1)
  \/ WindowExpire

Spec == Init /\ [][Next]_vars

\* concurrent requests
NextConc ==
  \/ \E r \in Reqs : ReceiveCore(r)
  \/ \E r \in Reqs : Step(r)
  \/ WindowExpire

InitConc == Init /\ build = "current" /\ secretSet

ConcSpec == InitConc /\ [][NextConc]_vars

\* every request whose next step is enabled takes it: the event loop runs every
\* callback that is ready
FairSpec == ConcSpec /\ \A r \in Reqs : WF_vars(Step(r))

(***************************************************************************)
(* Properties                                                              *)
(***************************************************************************)
InTrace(q, stage) == \E i \in 1 .. Len(q.trace) : q.trace[i] = stage

\* the rate limiter called next() for the request
Admitted(q) == InTrace(q, "log")

\* the request's url is under a mount that has validateToken
AuthRequired(q) ==
  /\ RouteIndex(build, q.url) # 0
  /\ Routes(build)[RouteIndex(build, q.url)].auth

Forwarded(q) == InTrace(q, "proxy") \/ q.target # "" \/ q.pc = "proxying"

\* the token of the request's Authorization header, as jwt.verify sees it
TokenOf(q) == Jwt(SplitSecond(q.auth)[1])

HasToken(q) ==
  Len(SplitSecond(q.auth)) = 1 /\ SplitSecond(q.auth)[1] \in Tokens

Genuine(q) ==
  TokenOf(q).wellFormed /\ TokenOf(q).algOk /\ TokenOf(q).sigOk

ExpiredMessage == "Token expired - Please login again"

\* C1: a request to an auth-required route that the rate limiter admitted and
\* that carries no Authorization header is answered 401 with success=false and
\* is never forwarded downstream.
C1_NoHeaderIs401 ==
  \A r \in Reqs :
    (Admitted(req[r]) /\ AuthRequired(req[r]) /\ req[r].auth = <<>>)
      => /\ req[r].pc = "done"
         /\ req[r].status = 401
         /\ req[r].success = "false"
         /\ req[r].writes = 1
         /\ ~Forwarded(req[r])

C1_Witness ==
  \E r \in Reqs :
    /\ Admitted(req[r]) /\ AuthRequired(req[r]) /\ req[r].auth = <<>>
    /\ req[r].status = 401
    /\ InTrace(req[r], "validateToken")

\* C2 (as claimed): whenever validateToken verifies a token whose expiry is in
\* the past, the answer is 401 with the expiry message, whatever the validity
\* of its signature.
C2_ExpiredAlways401 ==
  \A r \in Reqs :
    (InTrace(req[r], "jwt.verify") /\ HasToken(req[r]) /\ TokenOf(req[r]).expired)
      => req[r].status = 401 /\ req[r].message = ExpiredMessage

\* C2 (amended): an expired token is answered 401 with the expiry message when
\* it is well formed, of a supported algorithm and correctly signed; an expired
\* token that fails one of these checks is answered 403 instead.
C2_ExpiredGenuineIs401 ==
  \A r \in Reqs :
    (InTrace(req[r], "jwt.verify") /\ HasToken(req[r]) /\ TokenOf(req[r]).expired)
      => /\ req[r].pc = "done"
         /\ ~Forwarded(req[r])
         /\ IF Genuine(req[r])
            THEN req[r].status = 401 /\ req[r].message = ExpiredMessage
            ELSE req[r].status = 403 /\ req[r].message # ExpiredMessage

C2_Witness ==
  /\ \E r \in Reqs :
       /\ InTrace(req[r], "jwt.verify")
       /\ SplitSecond(req[r].auth) = <<"jwt_expired">>
       /\ req[r].status = 401

\* C3: a bearer token that fails verification by its signature, its structure
\* or its algorithm is answered 403 and next() is not called; among the
\* requests whose token was verified, only an expired token is answered 401.
C3_InvalidIs403 ==
  \A r \in Reqs :
    InTrace(req[r], "jwt.verify")
      => /\ (~HasToken(req[r]) \/ ~Genuine(req[r]))
              => /\ req[r].pc = "done"
                 /\ req[r].status = 403
                 /\ req[r].success = "false"
                 /\ ~Forwarded(req[r])
         /\ req[r].status = 401
              => HasToken(req[r]) /\ TokenOf(req[r]).expired

C3_Witness ==
  \E r \in Reqs :
    /\ InTrace(req[r], "jwt.verify")
    /\ SplitSecond(req[r].auth) = <<"jwt_badsig">>
    /\ req[r].status = 403

\* the store has counted the request
Counted(q) == q.totalHits > 0

\* the limiter has decided on the request
Decided(q) == Counted(q) /\ q.pc \in {"proxying", "done"}

\* requests counted in window w before this run began
Base(w) == IF w = 0 THEN prior ELSE 0

\* the place of request r among the requests of its window
Ordinal(r) ==
  Base(req[r].win)
    + Cardinality({s \in Reqs : /\ Counted(req[s])
                                /\ req[s].win = req[r].win
                                /\ req[s].totalHits <= req[r].totalHits})

BudgetKept ==
  \A r \in Reqs :
    Decided(req[r])
      => IF Ordinal(r) <= max
         THEN req[r].status # 429 /\ Admitted(req[r])
         ELSE req[r].status = 429 /\ ~Admitted(req[r]) /\ ~Forwarded(req[r])

\* C4: of the requests of one window, the first max (100) are not rejected by
\* the limiter and the next one is answered 429; a request that has been
\* answered keeps its outcome whatever happens to later requests.
C4_BudgetExact ==
  /\ []BudgetKept
  /\ [][\A r \in Reqs : req[r].pc = "done" => req'[r] = req[r]]_vars

C4_Witness ==
  \E r1 \in Reqs, r2 \in Reqs :
    /\ req[r1].pc = "done" /\ req[r2].pc = "done"
    /\ req[r1].win = req[r2].win
    /\ Ordinal(r1) = max /\ Admitted(req[r1]) /\ req[r1].status # 429
    /\ Ordinal(r2) = max + 1 /\ req[r2].status = 429

Min(a, b) == IF a <= b THEN a ELSE b

\* requests the limiter admitted in window w
AdmittedIn(w) ==
  Min(Base(w), max)
    + Cardinality({r \in Reqs : Admitted(req[r]) /\ req[r].win = w})

\* C5: under every interleaving of concurrent requests of one client key the
\* requests admitted in one window never exceed the budget by more than one,
\* and the increments are linearized at the store: no two requests of a window
\* are given the same count.
C5_AtomicBudget ==
  /\ \A w \in 0 .. MaxEpoch : AdmittedIn(w) <= max + 1
  /\ \A r1 \in Reqs, r2 \in Reqs :
       (r1 # r2 /\ Counted(req[r1]) /\ Counted(req[r2])
          /\ req[r1].win = req[r2].win)
         => req[r1].totalHits # req[r2].totalHits

C5_Witness ==
  \E r1 \in Reqs, r2 \in Reqs :
    /\ req[r1].pc = "counted" /\ req[r2].pc = "counted"
    /\ req[r1].win = req[r2].win
    /\ req[r1].totalHits = max
    /\ req[r2].totalHits = max + 1

LaterStages == {"log", "validateToken", "jwt.verify", "proxy"}

\* C6: the rate-limit check comes before token verification and before route
\* resolution in every request's trace, and a request over budget is answered
\* 429 with neither validateToken nor a proxy run for it, whatever its path
\* and credentials.
C6_LimiterFirst ==
  \A r \in Reqs :
    /\ \A i \in 1 .. Len(req[r].trace) :
         req[r].trace[i] \in LaterStages
           => \E j \in 1 .. (i - 1) : req[r].trace[j] = "rateLimit"
    /\ (req[r].totalHits > max /\ req[r].pc # "counted")
         => /\ req[r].pc = "done"
            /\ req[r].status = 429
            /\ req[r].trace = <<"rateLimit">>
            /\ ~Forwarded(req[r])

C6_Witness ==
  \E r \in Reqs :
    /\ req[r].status = 429
    /\ AuthRequired(req[r])
    /\ req[r].auth = <<"Bearer", " ", "jwt_ok">>

\* C7: when the downstream target of a matched route is unreachable the
\* request is answered 502 with the error envelope (success=false).
C7_Unreachable502 ==
  \A r \in Reqs :
    (req[r].pc = "done" /\ req[r].net \in {"refused", "reset"})
      => req[r].status = 502 /\ req[r].success = "false"

\* C8: every request the proxy has forwarded eventually gets its response,
\* also when the downstream service never answers.
C8_ForwardedAnswered ==
  \A r \in Reqs : (req[r].pc = "proxying") ~> (req[r].pc = "done")

\* the path a routed request is to be forwarded to: the mount replaced by the
\* internal prefix, the rest of the url as it came
ExactRewrite(q) ==
  LET rt == Routes(build)[RouteIndex(build, q.url)]
  IN  rt.internal \o Drop(q.url, Len(rt.mount))

\* C9: the path forwarded downstream is the request's url with /v1/<svc>
\* replaced by /api/<svc> and everything after it unchanged, also when nothing
\* or only a query string follows the prefix.
C9_ExactRewrite ==
  \A r \in Reqs :
    (/\ InTrace(req[r], "proxy")
     /\ StartsWith(req[r].url, Routes(build)[RouteIndex(build, req[r].url)].mount))
      => req[r].path = ExactRewrite(req[r])

\* C10: every request ends with exactly one response written: never two, and
\* never zero, a request in flight always having a step that takes it on.
C10_OneResponse ==
  \A r \in Reqs :
    /\ req[r].writes <= 1
    /\ req[r].pc = "done" <=> req[r].writes = 1
    /\ req[r].pc \notin {"idle", "done"} => ENABLED Step(r)


\* the store could not be reached for the request's rate-limit decision
StoreFailed(q) ==
  q.pc = "done" /\ q.trace = <<"rateLimit">> /\ q.totalHits = 0

\* C11: a request whose rate-limit decision the store could not be reached
\* for is treated as rejected: it is not admitted to authentication or
\* forwarding and it is answered as a rate-limit rejection (429).
C11_StoreFailureRejects ==
  \A r \in Reqs :
    StoreFailed(req[r])
      => /\ req[r].status = 429
         /\ ~Admitted(req[r])
         /\ ~Forwarded(req[r])


\* C12: every request forwarded on an authenticated route carries an
\* x-user-id header whose value is the verified subject of its token, for
\* every token that verification accepts, also one that names its subject id
\* rather than userId.
C12_SubjectInjected ==
  \A r \in Reqs :
    (AuthRequired(req[r]) /\ InTrace(req[r], "proxy"))
      => /\ req[r].xUserId = TokenOf(req[r]).subject
         /\ req[r].net # ""


\* C13: a multipart/form-data request to the media route is forwarded with its
\* own content-type header (and boundary); the header is set to
\* application/json only when the request is not multipart.
C13_MultipartKept ==
  \A r \in Reqs :
    (req[r].target = "media" /\ InTrace(req[r], "proxy"))
      => req[r].outType =
           IF req[r].body = "multipart" THEN Multipart ELSE "application/json"


\* the header is <scheme> <rest> with the scheme Bearer in any letter case
BearerAnyCase(h) ==
  Len(h) >= 2 /\ h[1] \in {"Bearer", "bearer", "BEARER"} /\ h[2] = " "

\* the header is Bearer <token>, the scheme in any letter case
BearerToken(h) == BearerAnyCase(h) /\ Len(h) = 3 /\ h[3] \in Tokens

\* the header is absent, has another scheme, or has no token after the scheme
NoCredential(h) ==
  \/ h = <<>>
  \/ ~BearerAnyCase(h)
  \/ BearerAnyCase(h) /\ IsBlank(SplitSecond(h))

\* C14: validateToken takes the Bearer scheme in any letter case to
\* jwt.verify, and answers 401 without reaching jwt.verify when the header is
\* absent, has a wrong scheme, or has an empty token after the scheme.
C14_SchemeAnyCase ==
  \A r \in Reqs :
    (InTrace(req[r], "validateToken") /\ secretSet)
      => /\ BearerToken(req[r].auth) => InTrace(req[r], "jwt.verify")
         /\ NoCredential(req[r].auth)
              => req[r].status = 401 /\ ~InTrace(req[r], "jwt.verify")


\* the request went through the limiter and its path is under no mount
NoMatch(q) == q.pc = "done" /\ Admitted(q) /\ RouteIndex(build, q.url) = 0

\* C15: a request whose path matches no route ends with 404 and the json
\* envelope {success: false, message, path, method}, never with 500.
C15_NoMatchEnvelope ==
  \A r \in Reqs :
    NoMatch(req[r])
      => /\ req[r].status = 404
         /\ req[r].success = "false"


\* the request is a well-formed GET /health and has been answered
HealthProbe(q) ==
  /\ q.pc = "done" /\ q.method = "GET" /\ q.body # "malformed"
  /\ Pathname(q.url) = <<"/", "health">>

\* C16: GET /health is answered 200 whatever the downstream services do.
C16_HealthAlways200 ==
  \A r \in Reqs : HealthProbe(req[r]) => req[r].status = 200


\* C17: a gateway started without its signing secret never serves: no request
\* is taken up by it.
C17_NoServeUnconfigured ==
  ~secretSet => \A r \in Reqs : req[r].pc = "idle"


\* an error was raised while the request was handled: by the body parser, by
\* the limiter's store, or by the connection to the downstream service
Errored(q) ==
  /\ q.pc = "done"
  /\ \/ q.trace = <<"json">>
     \/ StoreFailed(q)
     \/ InTrace(q, "proxy") /\ q.net \in {"refused", "reset"}

\* C18: every error raised in the chain reaches the caller as the same generic
\* 500, with nothing of the error's own message in the body.
C18_GenericError ==
  \A r \in Reqs :
    Errored(req[r])
      => /\ req[r].status = 500
         /\ req[r].message = "Internal Server Error"
         /\ req[r].error = ""


\* the request is suspended at the proxy: its downstream call never returns
Hung(q) == q.pc = "proxying" /\ q.net = "hangs"

\* C19: a request suspended at the proxy blocks no other request: every other
\* request can be received and, once in flight, always has its next step
\* enabled until it has its response or hangs on its own downstream call.
C19_HungBlocksNone ==
  \A r1, r2 \in Reqs :
    (r1 # r2 /\ Hung(req[r1]))
      => /\ req[r2].pc = "idle" => ENABLED ReceiveCore(r2)
         /\ (req[r2].pc \in {"counting", "counted"}
               \/ (req[r2].pc = "proxying" /\ ~Hung(req[r2])))
              => ENABLED Step(r2)

\* a request counted after the hung one has its response while the other hangs
C19_Witness ==
  \E r1, r2 \in Reqs :
    /\ r1 # r2 /\ Hung(req[r1])
    /\ req[r2].pc = "done"
    /\ req[r2].win = req[r1].win /\ req[r2].totalHits > req[r1].totalHits


\* the outbound request of q was sent to a downstream service
Dispatched(q) == q.net # ""

\* C20: a request is dispatched to the posts or media service only after
\* jwt.verify accepted its token, and carries the decoded user id; a request
\* to the identity service is dispatched without validateToken and without an
\* identity header.
C20_AuthGate ==
  \A r \in Reqs :
    Dispatched(req[r])
      => IF req[r].target \in {"post", "media"}
         THEN /\ InTrace(req[r], "jwt.verify")
              /\ HasToken(req[r]) /\ Genuine(req[r])
              /\ TokenOf(req[r]).active /\ ~TokenOf(req[r]).expired
              /\ req[r].xUserId = TokenOf(req[r]).userId
         ELSE /\ req[r].target = "identity"
              /\ ~InTrace(req[r], "validateToken")
              /\ req[r].xUserId = ""

\* a request with a verified token has been dispatched to the posts service
C20_Witness ==
  \E r \in Reqs :
    /\ Dispatched(req[r]) /\ req[r].target = "post"
    /\ InTrace(req[r], "jwt.verify") /\ req[r].xUserId = "u1"


(***************************************************************************)
(* Identity service: refreshToken                                          *)
(***************************************************************************)
\* storedToken.expiresAt < new Date()
TokenExpired(t) == t = <<"rtOld">>

\* User.findById(storedToken.user) finds the token's user
UserExists(t) == t # <<"rtOrphan">>

\* the refresh tokens a caller may present; <<>> is a body without one
Presented == StoredAtStart \cup {<<>>, <<"rtUnknown">>}

\* the n-th refresh token made by generateToken
FreshToken(n) == <<"rtNew", ToString(n)>>

\* the call ends with res.status(st).json(...)
Respond(c, st) == calls' = [calls EXCEPT ![c].pc = "done", ![c].status = st]

\* refreshToken is called: a body without a token is answered 400
RefreshToken(c) ==
  /\ calls[c].pc = "idle"
  /\ \E t \in Presented :
       calls' = [calls EXCEPT ![c] =
         IF t = <<>>
         THEN [@ EXCEPT !.pc = "done", !.status = 400]
         ELSE [@ EXCEPT !.pc = "findOne", !.token = t]]
  /\ UNCHANGED <<gatewayVars, postVars, stored, issued, consumed, regHits, regs>>

\* RefreshToken.findOne({ token }) and the test of its result
FindOne(c) ==
  /\ calls[c].pc = "findOne"
  /\ IF calls[c].token \notin stored \/ TokenExpired(calls[c].token)
     THEN Respond(c, 401)
     ELSE calls' = [calls EXCEPT ![c].pc = "findById", ![c].found = calls[c].token]
  /\ UNCHANGED <<gatewayVars, postVars, stored, issued, consumed, regHits, regs>>

\* User.findById(storedToken.user) and the test of its result
FindById(c) ==
  /\ calls[c].pc = "findById"
  /\ IF UserExists(calls[c].found)
     THEN calls' = [calls EXCEPT ![c].pc = "generateToken"]
     ELSE Respond(c, 404)
  /\ UNCHANGED <<gatewayVars, postVars, stored, issued, consumed, regHits, regs>>

\* generateToken(user): a new access token and a new stored refresh token
GenerateToken(c) ==
  /\ calls[c].pc = "generateToken"
  /\ issued' = issued + 1
  /\ stored' = stored \cup {FreshToken(issued + 1)}
  /\ calls' = [calls EXCEPT ![c].pc = "deleteOne",
                            ![c].fresh = FreshToken(issued + 1)]
  /\ UNCHANGED <<gatewayVars, postVars, consumed, regHits, regs>>

\* RefreshToken.deleteOne({ _id: storedToken._id }), then the 200 with the new
\* tokens
DeleteOne(c) ==
  /\ calls[c].pc = "deleteOne"
  /\ stored' = stored \ {calls[c].found}
  /\ Respond(c, 200)
  /\ UNCHANGED <<gatewayVars, postVars, issued, consumed, regHits, regs>>

\* one of the awaited database calls rejects: the catch block answers 500
RefreshCatch(c) ==
  /\ calls[c].pc \in {"findOne", "findById", "generateToken", "deleteOne"}
  /\ Respond(c, 500)
  /\ UNCHANGED <<gatewayVars, postVars, stored, issued, consumed, regHits, regs>>

RefreshStep(c) ==
  \/ FindOne(c)
  \/ FindById(c)
  \/ GenerateToken(c)
  \/ DeleteOne(c)
  \/ RefreshCatch(c)


(***************************************************************************)
(* Identity service: the limiters in front of /api/auth/register           *)
(***************************************************************************)
\* the answers of registerUser: created, invalid body, duplicate, failure
RegisterStatuses == {201, 400, 409, 500}

\* the response of a request to /api/auth/register is written
RegRespond(g, st) ==
  regs' = [regs EXCEPT ![g].pc = "done", ![g].status = st,
                       ![g].writes = regs[g].writes + 1]

\* a request to /api/auth/register arrives: helmet, cors, express.json, log
RegReceive(g) ==
  /\ regs[g].pc = "idle"
  /\ regs' = [regs EXCEPT ![g].pc = "consume"]
  /\ UNCHANGED <<gatewayVars, postVars, stored, issued, calls, consumed, regHits>>

\* rateLimiter.consume(req.ip): one more point in this second; next() within
\* the points, 429 Too Many Requests beyond them
Consume(g) ==
  /\ regs[g].pc = "consume"
  /\ consumed' = consumed + 1
  /\ IF consumed + 1 > points
     THEN RegRespond(g, 429)
     ELSE regs' = [regs EXCEPT ![g].pc = "counting"]
  /\ UNCHANGED <<gatewayVars, postVars, stored, issued, calls, regHits>>

\* rateLimiter.consume rejects because the store failed: the same catch, 429
ConsumeError(g) ==
  /\ regs[g].pc = "consume"
  /\ RegRespond(g, 429)
  /\ UNCHANGED <<gatewayVars, postVars, stored, issued, calls, consumed, regHits>>

\* the one-second window of rateLimiter ends
SecondExpire ==
  /\ consumed > 0
  /\ consumed' = 0
  /\ UNCHANGED <<gatewayVars, postVars, stored, issued, calls, regHits, regs>>

\* sensitiveEndpointsLimiter: the store increments the client's counter
RegIncrement(g) ==
  /\ regs[g].pc = "counting"
  /\ regHits' = regHits + 1
  /\ regs' = [regs EXCEPT ![g].pc = "counted", ![g].totalHits = regHits + 1]
  /\ UNCHANGED <<gatewayVars, postVars, stored, issued, calls, consumed>>

\* the 15-minute window of sensitiveEndpointsLimiter ends
RegWindowExpire ==
  /\ regHits > 0
  /\ regHits' = 0
  /\ UNCHANGED <<gatewayVars, postVars, stored, issued, calls, consumed, regs>>

\* sensitiveEndpointsLimiter decides: over the budget its handler runs, which
\* logs a warning and neither writes a response nor calls next(); within the
\* budget next() reaches the router and registerUser
SensitiveDecide(g) ==
  /\ regs[g].pc = "counted"
  /\ regs' = [regs EXCEPT ![g] =
       IF regs[g].totalHits > sensitiveMax
       THEN [@ EXCEPT !.pc = "handler"]
       ELSE [@ EXCEPT !.pc = "registerUser", !.handled = TRUE]]
  /\ UNCHANGED <<gatewayVars, postVars, stored, issued, calls, consumed, regHits>>

\* registerUser answers
RegisterUser(g) ==
  /\ regs[g].pc = "registerUser"
  /\ \E st \in RegisterStatuses : RegRespond(g, st)
  /\ UNCHANGED <<gatewayVars, postVars, stored, issued, calls, consumed, regHits>>

RegStep(g) ==
  \/ Consume(g)
  \/ ConsumeError(g)
  \/ RegIncrement(g)
  \/ SensitiveDecide(g)
  \/ RegisterUser(g)

\* the identity service alone: the counters start a run at 0 or near their
\* budgets
IdentityInit ==
  /\ GatewayIdle
  /\ PostIdle
  /\ stored = StoredAtStart
  /\ issued = 0
  /\ calls = [c \in Calls |-> IdleCall]
  /\ consumed \in {0, points - 1, points}
  /\ regHits \in {0} \cup ((sensitiveMax - Slack) .. sensitiveMax)
  /\ regs = [g \in Regs |-> IdleReg]

IdentityNext ==
  \/ \E c \in Calls : RefreshToken(c) \/ RefreshStep(c)
  \/ \E g \in Regs : RegReceive(g) \/ RegStep(g)
  \/ SecondExpire
  \/ RegWindowExpire

IdentitySpec == IdentityInit /\ [][IdentityNext]_vars

\* two refreshToken calls that presented the same token were both answered 200
BothRedeemed(c1, c2) ==
  /\ c1 # c2
  /\ calls[c1].token = calls[c2].token
  /\ calls[c1].status = 200 /\ calls[c2].status = 200

\* C21: a stored refresh token is redeemed at most once: of the refreshToken
\* calls that present the same token, whatever their interleaving, at most one
\* is answered 200 with new tokens.
C21_RedeemedOnce ==
  \A c1, c2 \in Calls : ~BothRedeemed(c1, c2)


\* the request to /api/auth/register was counted beyond the sensitive budget
\* and the limiter has decided on it
OverLimit(p) ==
  p.totalHits > sensitiveMax /\ p.pc \in {"handler", "registerUser", "done"}

\* C24: a request to /api/auth/register beyond the sensitive budget is not
\* passed on to registerUser and is not left pending: it has its response, or
\* a step that leads to it is still to run.
C24_OverLimitAnswered ==
  \A g \in Regs :
    OverLimit(regs[g])
      => /\ ~regs[g].handled
         /\ regs[g].writes = 1 \/ ENABLED RegStep(g)


(***************************************************************************)
(* Post service: the controller and its redis cache                        *)
(***************************************************************************)
Max(a, b) == IF a >= b THEN a ELSE b

MaxOf(S) == CHOOSE m \in S : \A x \in S : x <= m

\* Post.find({}).sort({ createdAt: -1 }): the ids, the newest first
RECURSIVE IdsDesc(_)
IdsDesc(S) == IF S = {} THEN <<>> ELSE <<MaxOf(S)>> \o IdsDesc(S \ {MaxOf(S)})

\* JSON.stringify of a post document
PostJson(i) == <<"{", "_id", ToString(i), "}">>

\* JSON.parse of a cached post: the document whose json the text is
PostParse(s) == CHOOSE i \in PostIds : PostJson(i) = s

\* JSON.stringify of { post: <document> }
PostEnvelope(i) == <<"{", "post", ":">> \o PostJson(i) \o <<"}">>

\* the response of getAllPosts: { currentPage, totalPages, posts }
ListResponse(S, total) ==
  [currentPage |-> 1, totalPages |-> IF total = 0 THEN 0 ELSE 1, posts |-> IdsDesc(S)]

\* JSON.stringify of that response
ListJson(resp) ==
  <<"{", "currentPage", ToString(resp.currentPage),
    "totalPages", ToString(resp.totalPages), "posts", "[">>
    \o [k \in 1 .. Len(resp.posts) |-> ToString(resp.posts[k])] \o <<"]", "}">>

\* JSON.parse of a cached list: the response whose json the text is
ListParse(s) ==
  CHOOSE resp \in { ListResponse(S, t) : S \in SUBSET PostIds, t \in 0 .. MaxPosts } :
    ListJson(resp) = s

PostKinds == {"createPost", "deletePost", "getAllPosts", "getPostById"}

\* the call ends with res.status(st).json(body)
Answer(q, st, body) == [q EXCEPT !.pc = "done", !.status = st, !.body = body]

\* a controller is called; createPost answers 400 when validateCreatePost
\* finds an error
CallPost(o) ==
  /\ ops[o].pc = "idle"
  /\ \E kind \in PostKinds, i \in PostIds, valid \in BOOLEAN :
       LET q == [ops[o] EXCEPT !.kind = kind,
                   !.id = IF kind \in {"deletePost", "getPostById"} THEN i ELSE 0,
                   !.floor = settled[IF kind = "getPostById" THEN i ELSE ListKey]]
       IN  ops' = [ops EXCEPT ![o] =
             CASE kind = "createPost" ->
                    IF valid THEN [q EXCEPT !.pc = "save"]
                    ELSE Answer(q, 400, <<"validation">>)
               [] kind = "deletePost" -> [q EXCEPT !.pc = "findOneAndDelete"]
               [] OTHER -> [q EXCEPT !.pc = "get"]]
  /\ UNCHANGED <<gatewayVars, identityVars, db, nextId, dbVersion, settled,
                 cacheItem, cacheList>>

\* createPost: newlyCreatedPost.save()
Save(o) ==
  /\ ops[o].pc = "save"
  /\ nextId <= MaxPosts
  /\ db' = db \cup {nextId}
  /\ nextId' = nextId + 1
  /\ dbVersion' = dbVersion + 1
  /\ ops' = [ops EXCEPT ![o].pc = "del", ![o].id = nextId,
                        ![o].seenVersion = dbVersion + 1]
  /\ UNCHANGED <<gatewayVars, identityVars, settled, cacheItem, cacheList>>

\* deletePost: Post.findOneAndDelete({ _id, user }); 404 when the post does
\* not exist or is another user's
FindOneAndDelete(o) ==
  /\ ops[o].pc = "findOneAndDelete"
  /\ \E mine \in BOOLEAN :
       IF ops[o].id \in db /\ mine
       THEN /\ db' = db \ {ops[o].id}
            /\ dbVersion' = dbVersion + 1
            /\ ops' = [ops EXCEPT ![o].pc = "del", ![o].seenVersion = dbVersion + 1]
       ELSE /\ ops' = [ops EXCEPT ![o] = Answer(@, 404, <<"Post not found">>)]
            /\ UNCHANGED <<db, dbVersion>>
  /\ UNCHANGED <<gatewayVars, identityVars, nextId, settled, cacheItem, cacheList>>

\* the write's call has completed: its response is written
Settle(o) ==
  /\ settled' = [settled EXCEPT ![ListKey] = Max(@, ops[o].seenVersion),
                                ![ops[o].id] = Max(@, ops[o].seenVersion)]
  /\ ops' = [ops EXCEPT ![o] =
       IF ops[o].kind = "createPost"
       THEN Answer(@, 201, PostEnvelope(ops[o].id))
       ELSE Answer(@, 200, <<"Post deleted successfully">>)]

\* invalidatePostCache: redisClient.del("post:" + id)
Del(o) ==
  /\ ops[o].pc = "del"
  /\ cacheItem' = [cacheItem EXCEPT ![ops[o].id] = NoEntry]
  /\ ops' = [ops EXCEPT ![o].pc = "keys"]
  /\ UNCHANGED <<gatewayVars, identityVars, db, nextId, dbVersion, settled, cacheList>>

\* invalidatePostCache: redisClient.keys("posts:*"); with no key the
\* invalidation is over and the controller answers
Keys(o) ==
  /\ ops[o].pc = "keys"
  /\ IF cacheList.present
     THEN /\ ops' = [ops EXCEPT ![o].pc = "delKeys"]
          /\ UNCHANGED settled
     ELSE Settle(o)
  /\ UNCHANGED <<gatewayVars, identityVars, db, nextId, dbVersion, cacheItem, cacheList>>

\* invalidatePostCache: redisClient.del(keys), then the controller answers
DelKeys(o) ==
  /\ ops[o].pc = "delKeys"
  /\ cacheList' = NoEntry
  /\ Settle(o)
  /\ UNCHANGED <<gatewayVars, identityVars, db, nextId, dbVersion, cacheItem>>


\* getAllPosts, getPostById: redisClient.get(cacheKey); a hit is answered from
\* the cached text
Get(o) ==
  /\ ops[o].pc = "get"
  /\ LET e == IF ops[o].kind = "getAllPosts" THEN cacheList
              ELSE cacheItem[ops[o].id]
         served == IF ops[o].kind = "getAllPosts" THEN ListJson(ListParse(e.json))
                   ELSE PostJson(PostParse(e.json))
     IN  ops' = [ops EXCEPT ![o] =
           IF e.present
           THEN [Answer(@, 200, served) EXCEPT !.hit = TRUE,
                                               !.seenVersion = e.version]
           ELSE [@ EXCEPT !.pc = IF ops[o].kind = "getAllPosts" THEN "find"
                                 ELSE "findById"]]
  /\ UNCHANGED <<gatewayVars, identityVars, db, nextId, dbVersion, settled,
                 cacheItem, cacheList>>

\* getAllPosts: Post.find({}).sort(...).skip(...).limit(...)
Find(o) ==
  /\ ops[o].pc = "find"
  /\ ops' = [ops EXCEPT ![o].pc = "countDocuments", ![o].seen = db,
                        ![o].seenVersion = dbVersion]
  /\ UNCHANGED <<gatewayVars, identityVars, db, nextId, dbVersion, settled,
                 cacheItem, cacheList>>

\* getAllPosts: Post.countDocuments()
CountDocuments(o) ==
  /\ ops[o].pc = "countDocuments"
  /\ ops' = [ops EXCEPT ![o].pc = "setex", ![o].total = Cardinality(db)]
  /\ UNCHANGED <<gatewayVars, identityVars, db, nextId, dbVersion, settled,
                 cacheItem, cacheList>>

\* getPostById: Post.findById(postId); 404 when there is no such post
FindPostById(o) ==
  /\ ops[o].pc = "findById"
  /\ ops' = [ops EXCEPT ![o] =
       IF ops[o].id \in db
       THEN [@ EXCEPT !.pc = "setex", !.seen = {ops[o].id},
                      !.seenVersion = dbVersion]
       ELSE Answer(@, 404, <<"Post not found">>)]
  /\ UNCHANGED <<gatewayVars, identityVars, db, nextId, dbVersion, settled,
                 cacheItem, cacheList>>

\* redisClient.setex(cacheKey, 3600, JSON.stringify(...)), then the 200: the
\* list is answered as it was cached, the post inside { post: ... }
Setex(o) ==
  /\ ops[o].pc = "setex"
  /\ IF ops[o].kind = "getAllPosts"
     THEN LET text == ListJson(ListResponse(ops[o].seen, ops[o].total))
          IN  /\ cacheList' = [present |-> TRUE, json |-> text,
                               version |-> ops[o].seenVersion]
              /\ ops' = [ops EXCEPT ![o] = Answer(@, 200, text)]
              /\ UNCHANGED cacheItem
     ELSE /\ cacheItem' = [cacheItem EXCEPT ![ops[o].id] =
                 [present |-> TRUE, json |-> PostJson(ops[o].id),
                  version |-> ops[o].seenVersion]]
          /\ ops' = [ops EXCEPT ![o] = Answer(@, 200, PostEnvelope(ops[o].id))]
          /\ UNCHANGED cacheList
  /\ UNCHANGED <<gatewayVars, identityVars, db, nextId, dbVersion, settled>>

\* an awaited call of createPost, getAllPosts or getPostById rejects: the
\* catch block answers 500
PostCatch(o) ==
  /\ ops[o].kind # "deletePost"
  /\ ops[o].pc \notin {"idle", "done"}
  /\ ops' = [ops EXCEPT ![o] = Answer(@, 500, <<"Internal server error">>)]
  /\ UNCHANGED <<gatewayVars, identityVars, db, nextId, dbVersion, settled,
                 cacheItem, cacheList>>

\* the 3600 seconds of a cached entry are over
Expire ==
  /\ \/ /\ cacheList.present
        /\ cacheList' = NoEntry
        /\ UNCHANGED cacheItem
     \/ /\ \E i \in PostIds :
             /\ cacheItem[i].present
             /\ cacheItem' = [cacheItem EXCEPT ![i] = NoEntry]
        /\ UNCHANGED cacheList
  /\ UNCHANGED <<gatewayVars, identityVars, db, nextId, dbVersion, settled, ops>>

\* the response has gone out: the task is free for the next call
Return(o) ==
  /\ ops[o].pc = "done"
  /\ ops' = [ops EXCEPT ![o] = IdleOp]
  /\ UNCHANGED <<gatewayVars, identityVars, db, nextId, dbVersion, settled,
                 cacheItem, cacheList>>

PostStep(o) ==
  \/ Save(o)
  \/ FindOneAndDelete(o)
  \/ Del(o)
  \/ Keys(o)
  \/ DelKeys(o)
  \/ Get(o)
  \/ Find(o)
  \/ CountDocuments(o)
  \/ FindPostById(o)
  \/ Setex(o)
  \/ PostCatch(o)

PostInit == GatewayIdle /\ IdentityIdle /\ PostIdle

PostNext ==
  \/ \E o \in Ops : CallPost(o) \/ PostStep(o) \/ Return(o)
  \/ Expire

PostSpec == PostInit /\ [][PostNext]_vars

\* a read answered from the cache
ServedFromCache(q) ==
  q.pc = "done" /\ q.kind \in {"getAllPosts", "getPostById"} /\ q.hit

\* C22: a getAllPosts or getPostById call that arrives after a createPost or
\* deletePost has completed, invalidation included, is never answered from the
\* cache with a value computed before that write.
C22_NoStaleHit ==
  \A o \in Ops :
    ServedFromCache(ops[o]) => ops[o].seenVersion >= ops[o].floor

\* C23: for an existing post getPostById answers the same body from the cache
\* as from the database.
C23_HitEqualsMiss ==
  \A o1, o2 \in Ops :
    ( /\ ops[o1].kind = "getPostById" /\ ops[o2].kind = "getPostById"
      /\ ops[o1].id = ops[o2].id
      /\ ops[o1].pc = "done" /\ ops[o2].pc = "done"
      /\ ops[o1].status = 200 /\ ops[o2].status = 200 )
      => ops[o1].body = ops[o2].body

====
